---- MODULE Spec2Model ----
(***************************************************************************)
(* Model of the scheduling core of the service-assistant chatbot           *)
(* (src/chatbot.py): the matcher, the availability check, the first-fit    *)
(* booking scheduler, and the appointment ledger with its load/save to     *)
(* appointments.jsonl.                                                     *)
(*                                                                         *)
(* Time is counted in units of 30 minutes, so timedelta(hours=1) is Hour   *)
(* = 2 units and "30 minutes after its start" is start + 1.                *)
(***************************************************************************)
EXTENDS Integers, Sequences, FiniteSets, TLC

VARIABLES
    technicians,    \* main(): the roster built by build_technicians
    appointments,   \* main(): the in-memory ledger (List[Appointment])
    disk,           \* appointments.jsonl on stable storage
    pc,             \* position of the process in main()
    written,        \* save_appointments: records handed to f.write so far
    last,           \* record of the most recent call (inputs, ledger before, result)
    lastSaved,      \* the ledger written by the last completed save_appointments
    sessions,       \* number of times the program has been started
    session,        \* this run: the ledger loaded at startup, the bookings made since
    writable,       \* whether appointments.jsonl can be opened for writing
    flow            \* run_booking_flow: its locals and the answer just given

vars == <<technicians, appointments, disk, pc, written, last, lastSaved, sessions,
          session, writable, flow>>

----------------------------------------------------------------------------
(* Bounds *)

MaxTime == 2

MaxAppts == 2

MaxSessions == 2

MaxTechs == 3

(* timedelta(hours=1), in 30-minute units *)
Hour == 2

Times == 0..MaxTime

Trades == {"plumbing", "electrical"}

Zips == {"10001", "10002"}

----------------------------------------------------------------------------
(* Data model *)

Technician(id, zones, business_units) ==
    [technician_id |-> id, zones |-> zones, business_units |-> business_units]

Appointment(appointment_id, technician_id, start, end, trade) ==
    [appointment_id |-> appointment_id, technician_id |-> technician_id,
     start |-> start, end |-> end, trade |-> trade]

(* Rosters that build_technicians may deliver: a single technician, two     *)
(* technicians serving the same trade and zone, and a roster in which some  *)
(* technicians match only the trade or only the zone.                       *)
Rosters ==
    { << Technician(7, {"10001"}, {"plumbing"}) >>,
      << Technician(1, {"10001", "10002"}, {"plumbing"}),
         Technician(2, {"10001"}, {"plumbing", "electrical"}) >>,
      << Technician(1, {"10002"}, {"plumbing"}),
         Technician(2, {"10001"}, {"electrical"}),
         Technician(3, {"10001"}, {"plumbing", "electrical"}) >> }

None == << >>

----------------------------------------------------------------------------
(* Matcher *)

(* mutant: "or" in place of "and" *)
find_matching_technicians_Or(trade, zip_code, techs) ==
    LET scan[i \in 0..Len(techs)] ==
            IF i = 0 THEN << >>
            ELSE IF trade \in techs[i].business_units \/ zip_code \in techs[i].zones
                 THEN Append(scan[i - 1], techs[i])
                 ELSE scan[i - 1]
    IN  scan[Len(techs)]

(* mutant: the zone is not looked at *)
find_matching_technicians_TradeOnly(trade, zip_code, techs) ==
    LET scan[i \in 0..Len(techs)] ==
            IF i = 0 THEN << >>
            ELSE IF trade \in techs[i].business_units
                 THEN Append(scan[i - 1], techs[i])
                 ELSE scan[i - 1]
    IN  scan[Len(techs)]

find_matching_technicians(trade, zip_code, techs) ==
    LET scan[i \in 0..Len(techs)] ==
            IF i = 0 THEN << >>
            ELSE IF trade \in techs[i].business_units /\ zip_code \in techs[i].zones
                 THEN Append(scan[i - 1], techs[i])
                 ELSE scan[i - 1]
    IN  scan[Len(techs)]

----------------------------------------------------------------------------
(* Availability engine *)

(* mutant: conflict only when the two appointments start at the same time *)
is_technician_available_SameStart(technician, start, end, appts) ==
    LET scan[i \in 1..(Len(appts) + 1)] ==
            IF i > Len(appts) THEN TRUE
            ELSE IF appts[i].technician_id # technician.technician_id
                 THEN scan[i + 1]
                 ELSE IF appts[i].start = start THEN FALSE
                      ELSE scan[i + 1]
    IN  scan[1]

(* mutant: closed intervals, an adjacent appointment counts as a conflict *)
is_technician_available_Closed(technician, start, end, appts) ==
    LET scan[i \in 1..(Len(appts) + 1)] ==
            IF i > Len(appts) THEN TRUE
            ELSE IF appts[i].technician_id # technician.technician_id
                 THEN scan[i + 1]
                 ELSE IF ~(end < appts[i].start \/ appts[i].end < start) THEN FALSE
                      ELSE scan[i + 1]
    IN  scan[1]

(* mutant: the technician filter is dropped, any appointment can conflict *)
is_technician_available_AnyTech(technician, start, end, appts) ==
    LET scan[i \in 1..(Len(appts) + 1)] ==
            IF i > Len(appts) THEN TRUE
            ELSE IF ~(end <= appts[i].start \/ appts[i].end <= start) THEN FALSE
                 ELSE scan[i + 1]
    IN  scan[1]

is_technician_available(technician, start, end, appts) ==
    LET scan[i \in 1..(Len(appts) + 1)] ==
            IF i > Len(appts) THEN TRUE
            ELSE IF appts[i].technician_id # technician.technician_id
                 THEN scan[i + 1]
                 ELSE IF ~(end <= appts[i].start \/ appts[i].end <= start) THEN FALSE
                      ELSE scan[i + 1]
    IN  scan[1]

----------------------------------------------------------------------------
(* Booking scheduler.  confirmation_id is the value uuid.uuid4() returns.   *)
(* The result carries the return value, the ledger after the call and the   *)
(* number of is_technician_available calls the loop made.                   *)

(* mutant: the last available match wins instead of the first *)
book_first_available_LastFit(trade, zip_code, service_time, techs, appts, confirmation_id) ==
    LET matches == find_matching_technicians(trade, zip_code, techs)
        start == service_time
        end == service_time + Hour
        scan[i \in 0..Len(matches)] ==
            IF i = 0
            THEN [ret |-> None, appointments |-> appts, checks |-> Len(matches)]
            ELSE IF is_technician_available(matches[i], start, end, appts)
                 THEN [ret |-> <<matches[i], confirmation_id>>,
                       appointments |-> Append(appts,
                           Appointment(confirmation_id, matches[i].technician_id,
                                       start, end, trade)),
                       checks |-> Len(matches) - i + 1]
                 ELSE scan[i - 1]
    IN  scan[Len(matches)]

(* mutant: the loop gives up after the first busy match *)
book_first_available_OnlyFirst(trade, zip_code, service_time, techs, appts, confirmation_id) ==
    LET matches == find_matching_technicians(trade, zip_code, techs)
        start == service_time
        end == service_time + Hour
    IN  IF matches = << >>
        THEN [ret |-> None, appointments |-> appts, checks |-> 0]
        ELSE IF is_technician_available(matches[1], start, end, appts)
             THEN [ret |-> <<matches[1], confirmation_id>>,
                   appointments |-> Append(appts,
                       Appointment(confirmation_id, matches[1].technician_id,
                                   start, end, trade)),
                   checks |-> 1]
             ELSE [ret |-> None, appointments |-> appts, checks |-> 1]

(* mutant: the appointment is appended before the availability check *)
book_first_available_EagerAppend(trade, zip_code, service_time, techs, appts, confirmation_id) ==
    LET matches == find_matching_technicians(trade, zip_code, techs)
        start == service_time
        end == service_time + Hour
        scan[i \in 1..(Len(matches) + 1)] ==
            IF i > Len(matches)
            THEN [ret |-> None,
                  appointments |-> Append(appts,
                      Appointment(confirmation_id, matches[Len(matches)].technician_id,
                                  start, end, trade)),
                  checks |-> Len(matches)]
            ELSE IF is_technician_available(matches[i], start, end, appts)
                 THEN [ret |-> <<matches[i], confirmation_id>>,
                       appointments |-> Append(appts,
                           Appointment(confirmation_id, matches[i].technician_id,
                                       start, end, trade)),
                       checks |-> i]
                 ELSE scan[i + 1]
    IN  IF matches = << >>
        THEN [ret |-> None, appointments |-> appts, checks |-> 0]
        ELSE scan[1]

(* mutant: the new appointment is inserted at the front of the ledger *)
book_first_available_Prepend(trade, zip_code, service_time, techs, appts, confirmation_id) ==
    LET matches == find_matching_technicians(trade, zip_code, techs)
        start == service_time
        end == service_time + Hour
        scan[i \in 1..(Len(matches) + 1)] ==
            IF i > Len(matches)
            THEN [ret |-> None, appointments |-> appts, checks |-> Len(matches)]
            ELSE IF is_technician_available(matches[i], start, end, appts)
                 THEN [ret |-> <<matches[i], confirmation_id>>,
                       appointments |->
                           << Appointment(confirmation_id, matches[i].technician_id,
                                          start, end, trade) >> \o appts,
                       checks |-> i]
                 ELSE scan[i + 1]
    IN  IF matches = << >>
        THEN [ret |-> None, appointments |-> appts, checks |-> 0]
        ELSE scan[1]

(* mutant: a booking for one technician replaces the ledger's last entry *)
book_first_available_Overwrite(trade, zip_code, service_time, techs, appts, confirmation_id) ==
    LET matches == find_matching_technicians(trade, zip_code, techs)
        start == service_time
        end == service_time + Hour
        scan[i \in 1..(Len(matches) + 1)] ==
            IF i > Len(matches)
            THEN [ret |-> None, appointments |-> appts, checks |-> Len(matches)]
            ELSE IF is_technician_available(matches[i], start, end, appts)
                 THEN [ret |-> <<matches[i], confirmation_id>>,
                       appointments |->
                           Append(IF appts = << >> THEN appts
                                  ELSE SubSeq(appts, 1, Len(appts) - 1),
                                  Appointment(confirmation_id, matches[i].technician_id,
                                              start, end, trade)),
                       checks |-> i]
                 ELSE scan[i + 1]
    IN  IF matches = << >>
        THEN [ret |-> None, appointments |-> appts, checks |-> 0]
        ELSE scan[1]

(* mutant: the candidates are tried from a starting point drawn from the   *)
(* fresh uuid, as a random choice would                                     *)
book_first_available_FromUuid(trade, zip_code, service_time, techs, appts, confirmation_id) ==
    LET found == find_matching_technicians(trade, zip_code, techs)
        n == Len(found)
        matches == [k \in 1..n |-> found[((k - 1 + confirmation_id) % n) + 1]]
        start == service_time
        end == service_time + Hour
        scan[i \in 1..(Len(matches) + 1)] ==
            IF i > Len(matches)
            THEN [ret |-> None, appointments |-> appts, checks |-> Len(matches)]
            ELSE IF is_technician_available(matches[i], start, end, appts)
                 THEN [ret |-> <<matches[i], confirmation_id>>,
                       appointments |-> Append(appts,
                           Appointment(confirmation_id, matches[i].technician_id,
                                       start, end, trade)),
                       checks |-> i]
                 ELSE scan[i + 1]
    IN  IF found = << >>
        THEN [ret |-> None, appointments |-> appts, checks |-> 0]
        ELSE scan[1]

book_first_available(trade, zip_code, service_time, techs, appts, confirmation_id) ==
    LET matches == find_matching_technicians(trade, zip_code, techs)
        start == service_time
        end == service_time + Hour
        scan[i \in 1..(Len(matches) + 1)] ==
            IF i > Len(matches)
            THEN [ret |-> None, appointments |-> appts, checks |-> Len(matches)]
            ELSE IF is_technician_available(matches[i], start, end, appts)
                 THEN [ret |-> <<matches[i], confirmation_id>>,
                       appointments |-> Append(appts,
                           Appointment(confirmation_id, matches[i].technician_id,
                                       start, end, trade)),
                       checks |-> i]
                 ELSE scan[i + 1]
    IN  IF matches = << >>
        THEN [ret |-> None, appointments |-> appts, checks |-> 0]
        ELSE scan[1]

----------------------------------------------------------------------------
(* Appointment ledger: serialisation.  A line of appointments.jsonl is the  *)
(* JSON object json.dumps writes for one appointment; complete = FALSE      *)
(* marks a proper prefix of that text (a record cut short on disk), which   *)
(* json.loads rejects.                                                      *)

(* str(uuid) and uuid.UUID(text) *)
uuid_str(u) == <<"uuid", u>>

uuid_UUID(text) == text[2]

(* mutant: the time of day is written to the hour only *)
isoformat_NoMinutes(t) == [hh |-> t \div Hour, mm |-> 0]

(* datetime.isoformat() and datetime.fromisoformat(text): hours and minutes *)
isoformat(t) == [hh |-> t \div Hour, mm |-> (t % Hour) * (60 \div Hour)]

fromisoformat(text) == text.hh * Hour + text.mm \div (60 \div Hour)

(* json.dumps(appt_dict) + "\n" for one appointment, as save_appointments builds it *)
dump_line(appt) ==
    [complete |-> TRUE,
     appointment_id |-> uuid_str(appt.appointment_id),
     technician_id |-> appt.technician_id,
     start |-> isoformat(appt.start),
     end |-> isoformat(appt.end),
     trade |-> appt.trade]

(* mutant: the technician of a loaded appointment is not read back *)
parse_line_TechnicianLost(line) ==
    Appointment(uuid_UUID(line.appointment_id), 0,
                fromisoformat(line.start), fromisoformat(line.end), line.trade)

(* Appointment(...) built from json.loads(line) in load_appointments *)
parse_line(line) ==
    Appointment(uuid_UUID(line.appointment_id), line.technician_id,
                fromisoformat(line.start), fromisoformat(line.end), line.trade)

Torn(line) == [line EXCEPT !.complete = FALSE]

NoFile == [exists |-> FALSE, lines |-> << >>]

File(lines) == [exists |-> TRUE, lines |-> lines]

(* mutant: open() of the missing file raises FileNotFoundError *)
load_appointments_MissingRaises(d) ==
    LET scan[i \in 1..(Len(d.lines) + 1)] ==
            IF i > Len(d.lines) THEN [raised |-> FALSE, appointments |-> << >>]
            ELSE IF ~d.lines[i].complete
                 THEN [raised |-> TRUE, appointments |-> << >>]
                 ELSE LET rest == scan[i + 1]
                      IN  IF rest.raised THEN rest
                          ELSE [raised |-> FALSE,
                                appointments |-> <<parse_line(d.lines[i])>> \o rest.appointments]
    IN  IF ~d.exists THEN [raised |-> TRUE, appointments |-> << >>]
        ELSE scan[1]

(* load_appointments: raised = TRUE when json.loads / the field lookups     *)
(* raise, which load_appointments does not catch.                           *)
load_appointments(d) ==
    LET scan[i \in 1..(Len(d.lines) + 1)] ==
            IF i > Len(d.lines) THEN [raised |-> FALSE, appointments |-> << >>]
            ELSE IF ~d.lines[i].complete
                 THEN [raised |-> TRUE, appointments |-> << >>]
                 ELSE LET rest == scan[i + 1]
                      IN  IF rest.raised THEN rest
                          ELSE [raised |-> FALSE,
                                appointments |-> <<parse_line(d.lines[i])>> \o rest.appointments]
    IN  IF ~d.exists THEN [raised |-> FALSE, appointments |-> << >>]
        ELSE scan[1]

(* mutant: the loop stops one record early *)
FileText_DropLast(appts, n) == [i \in 1..(n - 1) |-> dump_line(appts[i])]

(* The text save_appointments has passed to f.write after n records *)
FileText(appts, n) == [i \in 1..n |-> dump_line(appts[i])]

HasTorn(d) == d.lines # << >> /\ ~d.lines[Len(d.lines)].complete

WholeLines(d) == IF HasTorn(d) THEN Len(d.lines) - 1 ELSE Len(d.lines)

(* What the file can hold while it is open for writing: f is a buffered     *)
(* text stream, so the file holds some prefix of the text written so far.   *)
(* The prefix is cut where a write to the file descriptor stopped, which    *)
(* is a matter of buffer and page sizes and need not be the end of a        *)
(* record (the short ledgers of the model stand for ledgers longer than a   *)
(* buffer).  Bytes already in the file stay there.                          *)
OnDisk(d, text) ==
    { File(SubSeq(text, 1, k) \o (IF torn THEN <<Torn(text[k + 1])>> ELSE << >>)) :
        <<k, torn>> \in { kt \in (WholeLines(d)..Len(text)) \X BOOLEAN :
                            /\ kt[2] => kt[1] < Len(text)
                            /\ (kt[1] = WholeLines(d) /\ HasTorn(d)) => kt[2] } }

----------------------------------------------------------------------------
(* The process: main() *)

(* uuid.uuid4(): an identifier no appointment of the ledger carries.  The   *)
(* program only copies identifiers, writes them with str and reads them     *)
(* back with uuid.UUID; it never compares or orders them, so the smallest   *)
(* unused number stands for whichever value is drawn.                       *)
uuid4(appts) ==
    LET used == {appts[i].appointment_id : i \in 1..Len(appts)}
    IN  { u \in 1..(Len(appts) + 1) : u \notin used /\ \A v \in 1..(u - 1) : v \in used }

NoCall ==
    [op |-> "none", tech |-> 0, trade |-> "", zip_code |-> "", start |-> 0,
     end |-> 0, pre |-> << >>, ret |-> None, checks |-> 0, avail |-> FALSE,
     matches |-> << >>]

NoSession == [loaded |-> << >>, booked |-> << >>]

(* run_booking_flow not running: trade, service_time and zip_code are None *)
NoFlow ==
    [entry |-> << >>, trade |-> None, service_time |-> None, zip_code |-> None,
     asked |-> "none", answer |-> << >>, ok |-> TRUE]

Init ==
    /\ technicians \in Rosters
    /\ appointments = << >>
    /\ disk = NoFile
    /\ pc = "start"
    /\ written = 0
    /\ last = NoCall
    /\ lastSaved = << >>
    /\ sessions = 0
    /\ session = NoSession
    /\ writable = TRUE
    /\ flow = NoFlow

(* main(), lines 361-365: a (re)started process loads the ledger.  An       *)
(* exception raised by load_appointments leaves main with a traceback.      *)
MainLoad ==
    /\ pc \in {"start", "done", "dead", "save_fault"}
    /\ sessions < MaxSessions
    /\ sessions' = sessions + 1
    /\ LET r == load_appointments(disk)
       IN  /\ pc' = IF r.raised THEN "load_fault" ELSE "menu"
           /\ appointments' = r.appointments
           /\ session' = [loaded |-> r.appointments, booked |-> << >>]
    /\ written' = 0
    /\ last' = [NoCall EXCEPT !.op = "load"]
    /\ UNCHANGED <<technicians, disk, lastSaved, writable, flow>>

(* choice "book": run_booking_flow with a recognised trade, a parsed time   *)
(* and a 5-digit zip, calling book_first_available on the ledger.           *)
Book ==
    /\ pc = "menu"
    /\ \E trade \in Trades, zip_code \in Zips, service_time \in Times :
       \E confirmation_id \in uuid4(appointments) :
          \E r \in {book_first_available(trade, zip_code, service_time,
                                         technicians, appointments, confirmation_id)} :
              /\ r.ret = None \/ Len(appointments) < MaxAppts
              /\ appointments' = r.appointments
              /\ last' = [NoCall EXCEPT !.op = "book", !.trade = trade,
                                        !.zip_code = zip_code, !.start = service_time,
                                        !.end = service_time + Hour,
                                        !.pre = appointments, !.ret = r.ret,
                                        !.checks = r.checks]
              /\ session' = IF r.ret = None THEN session
                            ELSE [session EXCEPT !.booked = Append(@,
                                     Appointment(r.ret[2], r.ret[1].technician_id,
                                                 service_time, service_time + Hour, trade))]
    /\ UNCHANGED <<technicians, disk, pc, written, lastSaved, sessions, writable, flow>>

(* mutant: the OSError of open is caught and dropped *)
SaveOpen_Swallowed ==
    /\ pc = "menu"
    /\ IF writable
       THEN pc' = "saving" /\ disk' = File(<< >>)
       ELSE pc' = "done" /\ disk' = disk
    /\ written' = 0
    /\ last' = [NoCall EXCEPT !.op = "save"]
    /\ UNCHANGED <<technicians, appointments, lastSaved, sessions, session, writable, flow>>

(* choice "quit": save_appointments opens the file with mode "w", which     *)
(* creates it or truncates it to length zero.  When the file cannot be      *)
(* opened for writing, open raises OSError; neither save_appointments nor   *)
(* main catches it, so the program ends with the traceback.                 *)
SaveOpen ==
    /\ pc = "menu"
    /\ IF writable
       THEN pc' = "saving" /\ disk' = File(<< >>)
       ELSE pc' = "save_fault" /\ disk' = disk
    /\ written' = 0
    /\ last' = [NoCall EXCEPT !.op = "save"]
    /\ UNCHANGED <<technicians, appointments, lastSaved, sessions, session, writable, flow>>

(* one iteration of the loop of save_appointments: f.write of one record *)
SaveWrite ==
    /\ pc = "saving"
    /\ written < Len(appointments)
    /\ written' = written + 1
    /\ disk' \in OnDisk(disk, FileText(appointments, written + 1))
    /\ UNCHANGED <<technicians, appointments, pc, last, lastSaved, sessions, session, writable, flow>>

(* leaving the with block closes f, which flushes everything written *)
SaveClose ==
    /\ pc = "saving"
    /\ written = Len(appointments)
    /\ disk' = File(FileText(appointments, Len(appointments)))
    /\ lastSaved' = appointments
    /\ pc' = "done"
    /\ UNCHANGED <<technicians, appointments, written, last, sessions, session, writable, flow>>

(* the process is terminated from outside, at the menu or part-way through  *)
(* save_appointments; what the file holds at that moment stays on disk      *)
Terminate ==
    /\ pc \in {"menu", "saving"}
    /\ pc' = "dead"
    /\ last' = NoCall
    /\ UNCHANGED <<technicians, appointments, disk, written, lastSaved, sessions, session, writable, flow>>

Next == MainLoad \/ Book \/ SaveOpen \/ SaveWrite \/ SaveClose \/ Terminate

Spec == Init /\ [][Next]_vars

(* Runs of the program that each end with the choice "quit" and a save      *)
(* that completes: load at startup, bookings, save.                         *)
NextQuit == MainLoad \/ Book \/ SaveOpen \/ SaveWrite \/ SaveClose

SpecQuit == Init /\ [][NextQuit]_vars

(* One run of the program on a fresh installation: start, then bookings. *)
NextSession == MainLoad \/ Book

SpecSession == Init /\ [][NextSession]_vars

----------------------------------------------------------------------------
(* is_technician_available as a function of its arguments: the ledger is    *)
(* any sequence of appointments (overlapping ones and durations other than  *)
(* one hour included), and each step evaluates one query on it.             *)

AnyAppointments ==
    { Appointment(1, tid, s, s + d, "plumbing") :
        tid \in {1, 2}, s \in Times, d \in {1, Hour} }

AnyLedgers == UNION { [1..n -> AnyAppointments] : n \in 0..MaxAppts }

QueryTechnicians ==
    << Technician(1, {"10001", "10002"}, {"plumbing"}),
       Technician(2, {"10001"}, {"plumbing", "electrical"}) >>

InitAvail ==
    /\ technicians = QueryTechnicians
    /\ appointments \in AnyLedgers
    /\ disk = NoFile
    /\ pc = "query"
    /\ written = 0
    /\ last = NoCall
    /\ lastSaved = << >>
    /\ sessions = 0
    /\ session = NoSession
    /\ writable = TRUE
    /\ flow = NoFlow

QueryAvailability ==
    /\ pc = "query"
    /\ \E i \in 1..Len(technicians), start \in Times, d \in 1..Hour :
          last' = [NoCall EXCEPT !.op = "avail",
                                 !.tech = technicians[i].technician_id,
                                 !.start = start, !.end = start + d,
                                 !.avail = is_technician_available(
                                     technicians[i], start, start + d, appointments)]
    /\ UNCHANGED <<technicians, appointments, disk, pc, written, lastSaved, sessions,
                   session, writable, flow>>

SpecAvail == InitAvail /\ [][QueryAvailability]_vars

----------------------------------------------------------------------------
(* Vocabulary of the properties *)

(* [s1, e1) and [s2, e2) overlap *)
Overlap(s1, e1, s2, e2) == ~(e1 <= s2 \/ e2 <= s1)

(* technician tid has an appointment in ledger overlapping [s, e) *)
Busy(tid, s, e, ledger) ==
    \E i \in 1..Len(ledger) :
        /\ ledger[i].technician_id = tid
        /\ Overlap(s, e, ledger[i].start, ledger[i].end)

(* the appointments of technician tid, in ledger order *)
OfTechnician(tid, ledger) ==
    LET keep[i \in 0..Len(ledger)] ==
            IF i = 0 THEN << >>
            ELSE IF ledger[i].technician_id = tid
                 THEN Append(keep[i - 1], ledger[i])
                 ELSE keep[i - 1]
    IN  keep[Len(ledger)]

(* the i-th technician of the roster serves the last call's trade and zip *)
Matches(i) ==
    /\ last.trade \in technicians[i].business_units
    /\ last.zip_code \in technicians[i].zones

(* the i-th technician had no appointment overlapping the last call's interval *)
Free(i) == ~Busy(technicians[i].technician_id, last.start, last.start + Hour, last.pre)

Booked == last.op = "book" /\ last.ret # None

Refused == last.op = "book" /\ last.ret = None

(* the first technician of the roster that matches the last call (0: none) *)
FirstMatch ==
    IF \E i \in 1..Len(technicians) : Matches(i)
    THEN CHOOSE i \in 1..Len(technicians) :
            Matches(i) /\ \A j \in 1..(i - 1) : ~Matches(j)
    ELSE 0

----------------------------------------------------------------------------
(* C1: no double booking.  After any sequence of book_first_available      *)
(* calls from an empty ledger, no two distinct appointments of the same    *)
(* technician have overlapping half-open intervals.                        *)
NoDoubleBooking ==
    \A i, j \in 1..Len(appointments) :
        (i # j /\ appointments[i].technician_id = appointments[j].technician_id)
            => ~Overlap(appointments[i].start, appointments[i].end,
                        appointments[j].start, appointments[j].end)

(* two appointments of one technician, back to back, are in the ledger *)
NoDoubleBookingWitness ==
    \E i, j \in 1..Len(appointments) :
        /\ i # j
        /\ appointments[i].technician_id = appointments[j].technician_id
        /\ appointments[i].end = appointments[j].start

(* C2: is_technician_available(technician, start, end, ledger) is true     *)
(* exactly when no appointment of that technician in the ledger overlaps   *)
(* [start, end); the appointments of other technicians do not change the   *)
(* result.                                                                 *)
AvailableIffNoOverlap ==
    last.op = "avail" =>
        /\ last.avail <=> ~Busy(last.tech, last.start, last.end, appointments)
        /\ \A i \in 1..Len(technicians) :
              technicians[i].technician_id = last.tech =>
                  last.avail = is_technician_available(technicians[i], last.start, last.end,
                                   OfTechnician(last.tech, appointments))

(* a query answered "available" although another technician's appointment  *)
(* overlaps the interval and an own appointment is adjacent to it          *)
AvailableIffNoOverlapWitness ==
    /\ last.op = "avail"
    /\ last.avail
    /\ \E i, j \in 1..Len(appointments) :
          /\ appointments[i].technician_id # last.tech
          /\ Overlap(last.start, last.end, appointments[i].start, appointments[i].end)
          /\ appointments[j].technician_id = last.tech
          /\ appointments[j].end = last.start

(* C3: first fit.  When book_first_available succeeds, the returned        *)
(* technician is the earliest one in roster order that matches (trade,     *)
(* zip) and was free for [start, start + 1 hour) in the ledger before the  *)
(* call; every matching technician before it was busy.                     *)
FirstFitSelection ==
    Booked =>
        \E i \in 1..Len(technicians) :
            /\ technicians[i] = last.ret[1]
            /\ Matches(i)
            /\ Free(i)
            /\ \A j \in 1..(i - 1) : Matches(j) => ~Free(j)

(* a booking that went to a later technician because an earlier match was busy *)
FirstFitSelectionWitness ==
    /\ Booked
    /\ \E i, j \in 1..Len(technicians) :
          j < i /\ technicians[i] = last.ret[1] /\ Matches(j) /\ ~Free(j)

(* C4: book_first_available returns no-availability exactly when every     *)
(* matching technician is busy in the requested hour; with no matching     *)
(* technician it returns no-availability without any availability check.   *)
NoAvailabilityIffAllBusy ==
    last.op = "book" =>
        /\ (last.ret = None) <=> (\A i \in 1..Len(technicians) : Matches(i) => ~Free(i))
        /\ (\A i \in 1..Len(technicians) : ~Matches(i)) =>
               (last.ret = None /\ last.checks = 0)

(* a refusal with two matching technicians, both busy *)
NoAvailabilityIffAllBusyWitness ==
    /\ Refused
    /\ \E i, j \in 1..Len(technicians) : i # j /\ Matches(i) /\ Matches(j)

(* C5: a call that returns no-availability leaves the ledger exactly as it *)
(* was before the call.                                                    *)
RefusalLeavesLedger == Refused => appointments = last.pre

(* a refusal on a non-empty ledger, with a matching technician *)
RefusalLeavesLedgerWitness ==
    /\ Refused
    /\ last.pre # << >>
    /\ \E i \in 1..Len(technicians) : Matches(i)

(* C6: right after a booking for technician T in [s, e), T is no longer    *)
(* available for [s, e), and the appointments of every other technician    *)
(* are the same as before the call.                                        *)
BookedTechnicianBusyOthersUntouched ==
    Booked =>
        /\ ~is_technician_available(last.ret[1], last.start, last.end, appointments)
        /\ \A tid \in {technicians[i].technician_id : i \in 1..Len(technicians)}
                     \cup {last.pre[i].technician_id : i \in 1..Len(last.pre)}
                     \cup {appointments[i].technician_id : i \in 1..Len(appointments)} :
              tid # last.ret[1].technician_id =>
                  OfTechnician(tid, appointments) = OfTechnician(tid, last.pre)

(* a booking made while another technician's appointment ends the ledger *)
BookedTechnicianBusyOthersUntouchedWitness ==
    /\ Booked
    /\ last.pre # << >>
    /\ last.pre[Len(last.pre)].technician_id # last.ret[1].technician_id

(* C7: a successful call appends exactly one appointment to the end of the *)
(* ledger: start = requested start, end = start + one hour, the requested  *)
(* trade, the returned technician's id and the returned identifier.        *)
BookingAppendsOneHour ==
    Booked =>
        /\ appointments = Append(last.pre,
               Appointment(last.ret[2], last.ret[1].technician_id,
                           last.start, last.start + Hour, last.trade))
        /\ appointments[Len(appointments)].end > appointments[Len(appointments)].start

(* a booking appended to a ledger that already held an appointment *)
BookingAppendsOneHourWitness == Booked /\ last.pre # << >>

(* C8: half-open boundary.  For the first matching technician T of a       *)
(* request for [X, X + 1 hour): an appointment of T that ends at X, or     *)
(* that starts at X + 1 hour, is no conflict (unless another appointment   *)
(* of T overlaps the request, the request is booked to T); an appointment  *)
(* of T that started before X and has not ended at X is a conflict.        *)
HalfOpenBoundary ==
    (last.op = "book" /\ FirstMatch # 0) =>
        LET T == technicians[FirstMatch]
            X == last.start
            mine == OfTechnician(T.technician_id, last.pre)
            toT == last.ret # None /\ last.ret[1] = T
        IN  /\ ( /\ \E i \in 1..Len(mine) : mine[i].end = X
                 /\ \A i \in 1..Len(mine) : mine[i].end <= X \/ mine[i].start >= X + Hour )
                    => toT
            /\ ( /\ \E i \in 1..Len(mine) : mine[i].start = X + Hour
                 /\ \A i \in 1..Len(mine) : mine[i].end <= X \/ mine[i].start >= X + Hour )
                    => toT
            /\ (\E i \in 1..Len(mine) : mine[i].start < X /\ X < mine[i].end) => ~toT

(* a request starting exactly when the technician's previous appointment   *)
(* ends, booked to that technician                                         *)
HalfOpenBoundaryWitness ==
    /\ Booked
    /\ FirstMatch # 0
    /\ last.ret[1] = technicians[FirstMatch]
    /\ \E i \in 1..Len(last.pre) :
          /\ last.pre[i].technician_id = last.ret[1].technician_id
          /\ last.pre[i].end = last.start

(* the file exists and holds a line json.loads cannot parse *)
Unreadable(d) == d.exists /\ \E i \in 1..Len(d.lines) : ~d.lines[i].complete

(* every record of ledger is a complete line of the file *)
Holds(d, ledger) ==
    \A i \in 1..Len(ledger) :
        \E k \in 1..Len(d.lines) : d.lines[k] = dump_line(ledger[i])

(* C9: at every moment, also in the middle of save_appointments and after  *)
(* the process is terminated there, the file holds at least every record   *)
(* of the last completed save and no partially written record.             *)
StorageNeverLosesCompletedSave ==
    /\ Holds(disk, lastSaved)
    /\ ~Unreadable(disk)

(* C10: load_appointments on a file with an unparseable line does not end  *)
(* the program: it returns an empty ledger and the session goes on.        *)
CorruptLoadDegradesToEmpty ==
    (last.op = "load" /\ Unreadable(disk)) => (pc = "menu" /\ appointments = << >>)

----------------------------------------------------------------------------
(* save_appointments followed by load_appointments, on any ledger: the      *)
(* program is at the menu with a ledger of arbitrary appointments, saves    *)
(* it over whatever the file held, and is started again.                    *)

SavedAppointments ==
    { Appointment(1, tid, s, s + Hour, trade) :
        tid \in {1, 2}, s \in Times, trade \in Trades }

SavedLedgers ==
    UNION { { [i \in 1..n |-> [f[i] EXCEPT !.appointment_id = n + 1 - i]] :
                f \in [1..n -> SavedAppointments] } : n \in 0..MaxAppts }

StaleFile == File(<< dump_line(Appointment(9, 9, 0, Hour, "hvac")) >>)

InitRoundTrip ==
    /\ technicians = QueryTechnicians
    /\ appointments \in SavedLedgers
    /\ disk \in {NoFile, StaleFile}
    /\ pc = "menu"
    /\ written = 0
    /\ last = NoCall
    /\ lastSaved = << >>
    /\ sessions = 1
    /\ session = [loaded |-> appointments, booked |-> << >>]
    /\ writable = TRUE
    /\ flow = NoFlow

NextRoundTrip == SaveOpen \/ SaveWrite \/ SaveClose \/ MainLoad

SpecRoundTrip == InitRoundTrip /\ [][NextRoundTrip]_vars

(* C11: round trip.  load_appointments after a completed save_appointments *)
(* of ledger L returns L: the same appointments in the same order, with    *)
(* appointment_id, technician_id, start, end and trade unchanged.          *)
RoundTrip == last.op = "load" => (pc = "menu" /\ appointments = lastSaved)

(* a ledger of two appointments, one on the half hour, loaded back *)
RoundTripWitness ==
    /\ last.op = "load"
    /\ Len(appointments) >= 2
    /\ \E i, j \in 1..Len(appointments) :
          /\ appointments[i].start % Hour # 0
          /\ appointments[i].trade # appointments[j].trade
          /\ appointments[i].technician_id # appointments[j].technician_id

(* the ledger load_appointments would build from the complete lines of d *)
Parsed(d) == [i \in 1..Len(d.lines) |-> parse_line(d.lines[i])]

(* C12: when a session has ended (main has returned from the save at       *)
(* "quit"), the file holds exactly the in-memory ledger, which is the      *)
(* ledger loaded at startup followed by the session's successful bookings  *)
(* in the order they were made.                                            *)
SessionEndPersistsBookings ==
    pc = "done" =>
        /\ disk.exists
        /\ ~Unreadable(disk)
        /\ Parsed(disk) = appointments
        /\ appointments = session.loaded \o session.booked

(* a session that loaded a ledger, booked, and has ended *)
SessionEndPersistsBookingsWitness ==
    /\ pc = "done"
    /\ session.loaded # << >>
    /\ session.booked # << >>

----------------------------------------------------------------------------
(* find_matching_technicians as a function of its arguments: the roster is  *)
(* any sequence of technicians, each with any zones and business units,     *)
(* and each step evaluates one (trade, zip) query on it.                    *)

InitMatch ==
    /\ \E n \in 0..MaxTechs :
          \E f \in [1..n -> (SUBSET Zips) \X (SUBSET Trades)] :
              technicians = [i \in 1..n |-> Technician(i, f[i][1], f[i][2])]
    /\ appointments = << >>
    /\ disk = NoFile
    /\ pc = "match"
    /\ written = 0
    /\ last = NoCall
    /\ lastSaved = << >>
    /\ sessions = 0
    /\ session = NoSession
    /\ writable = TRUE
    /\ flow = NoFlow

QueryMatch ==
    /\ pc = "match"
    /\ \E trade \in Trades, zip_code \in Zips :
          last' = [NoCall EXCEPT !.op = "match", !.trade = trade, !.zip_code = zip_code,
                                 !.matches = find_matching_technicians(
                                     trade, zip_code, technicians)]
    /\ UNCHANGED <<technicians, appointments, disk, pc, written, lastSaved, sessions,
                   session, writable, flow>>

SpecMatch == InitMatch /\ [][QueryMatch]_vars

(* C13: find_matching_technicians returns exactly the technicians whose    *)
(* business_units contain the trade and whose zones contain the zip, each  *)
(* once, in roster order: its k-th element is the k-th matching technician *)
(* of the roster.                                                          *)
MatchesExactlyInOrder ==
    last.op = "match" =>
        LET idx == {i \in 1..Len(technicians) : Matches(i)}
        IN  /\ Len(last.matches) = Cardinality(idx)
            /\ \A k \in 1..Len(last.matches) :
                  \E i \in idx :
                      /\ last.matches[k] = technicians[i]
                      /\ Cardinality({j \in idx : j <= i}) = k

(* two matches with, between them, a technician that serves the trade but  *)
(* not the zone                                                              *)
MatchesExactlyInOrderWitness ==
    /\ last.op = "match"
    /\ Len(last.matches) = 2
    /\ \E h, i, j \in 1..Len(technicians) :
          /\ h < i /\ i < j
          /\ Matches(h) /\ Matches(j)
          /\ last.trade \in technicians[i].business_units
          /\ last.zip_code \notin technicians[i].zones

----------------------------------------------------------------------------
(* C14: when no storage file exists, load_appointments returns an empty    *)
(* ledger without raising (the run reaches the menu, never a fault), the   *)
(* ledger of the run is exactly what the run has booked, and a booking on  *)
(* the still empty ledger goes to the first matching technician, or is     *)
(* refused only when no technician matches.                                *)
MissingFileIsEmptyLedger ==
    ~disk.exists =>
        /\ pc \in {"start", "menu"}
        /\ last.op = "load" => appointments = << >>
        /\ pc = "menu" => (session.loaded = << >> /\ appointments = session.booked)
        /\ (last.op = "book" /\ last.pre = << >>) =>
              IF FirstMatch = 0 THEN Refused
              ELSE Booked /\ last.ret[1] = technicians[FirstMatch]

(* two bookings made in a run that started without a storage file *)
MissingFileIsEmptyLedgerWitness ==
    /\ ~disk.exists
    /\ pc = "menu"
    /\ Booked
    /\ Len(appointments) = 2
    /\ session.loaded = << >>

----------------------------------------------------------------------------
(* A second run of the last call: the same trade, zip, start and roster, a *)
(* ledger holding the same (technician_id, start, end) appointments under  *)
(* other appointment ids and trades, and another fresh uuid.                *)

OtherTrade(trade) == IF trade = "plumbing" THEN "electrical" ELSE "plumbing"

Twin(ledger) ==
    [i \in 1..Len(ledger) |->
        [ledger[i] EXCEPT !.appointment_id = @ + MaxAppts + 1, !.trade = OtherTrade(@)]]

TwinUuid == 2 * MaxAppts + 2

TwinRun ==
    book_first_available(last.trade, last.zip_code, last.start, technicians,
                         Twin(last.pre), TwinUuid)

(* the (technician_id, start, end) of the appointments of a ledger, in order *)
Slots(ledger) ==
    [i \in 1..Len(ledger) |-> <<ledger[i].technician_id, ledger[i].start, ledger[i].end>>]

(* C15: first-fit determinism.  The call and its second run select the     *)
(* same technician, or both return no-availability, and the two resulting  *)
(* ledgers hold the same (technician_id, start, end) appointments in the   *)
(* same order, the appended one with the same trade: they differ in        *)
(* nothing that the first run's own uuid does not account for.             *)
FirstFitDeterminism ==
    last.op = "book" =>
        /\ (last.ret = None) = (TwinRun.ret = None)
        /\ last.ret # None =>
              /\ TwinRun.ret[1] = last.ret[1]
              /\ TwinRun.ret[2] # last.ret[2]
              /\ appointments[Len(appointments)].trade =
                    TwinRun.appointments[Len(TwinRun.appointments)].trade
        /\ Slots(TwinRun.appointments) = Slots(appointments)

(* a booking on a non-empty ledger for which two matching technicians      *)
(* were free                                                                *)
FirstFitDeterminismWitness ==
    /\ Booked
    /\ last.pre # << >>
    /\ Twin(last.pre) # last.pre
    /\ \E i, j \in 1..Len(technicians) :
          i # j /\ Matches(i) /\ Matches(j) /\ Free(i) /\ Free(j)

----------------------------------------------------------------------------
(* run_booking_flow and its validators.  What the user types is a sequence *)
(* of characters (date/time input: of tokens, one per strptime directive   *)
(* or literal).  An Optional result is a sequence of length at most one:   *)
(* None is << >>, a value v is <<v>>.                                       *)

Whitespace == {" "}

Digits == {"0", "1", "2", "3", "4", "5", "6", "7", "8", "9"}

Uppercase ==
    <<"A", "B", "C", "D", "E", "F", "G", "H", "I", "J", "K", "L", "M",
      "N", "O", "P", "Q", "R", "S", "T", "U", "V", "W", "X", "Y", "Z">>

Lowercase ==
    <<"a", "b", "c", "d", "e", "f", "g", "h", "i", "j", "k", "l", "m",
      "n", "o", "p", "q", "r", "s", "t", "u", "v", "w", "x", "y", "z">>

(* str.strip *)
strip(s) ==
    LET inked == {i \in 1..Len(s) : s[i] \notin Whitespace}
    IN  IF inked = {} THEN << >>
        ELSE SubSeq(s, CHOOSE i \in inked : \A j \in inked : i <= j,
                       CHOOSE i \in inked : \A j \in inked : j <= i)

(* str.lower *)
lower(s) ==
    [i \in 1..Len(s) |->
        IF \E k \in 1..Len(Uppercase) : Uppercase[k] = s[i]
        THEN Lowercase[CHOOSE k \in 1..Len(Uppercase) : Uppercase[k] = s[i]]
        ELSE s[i]]

(* the str of a sequence of characters *)
RECURSIVE join(_)
join(s) == IF s = << >> THEN "" ELSE s[1] \o join(Tail(s))

synonyms ==
    ("plumber" :> "plumbing") @@ ("plumbing" :> "plumbing") @@
    ("electrician" :> "electrical") @@ ("electrical" :> "electrical") @@
    ("hvac" :> "hvac") @@ ("air conditioning" :> "hvac") @@
    ("aircon" :> "hvac") @@ ("ac" :> "hvac")

(* mutant: text that is not in the table is passed on as it is *)
normalize_trade_PassThrough(user_input) ==
    LET text == join(lower(strip(user_input)))
    IN  IF text = "" THEN None
        ELSE IF text \in DOMAIN synonyms THEN <<synonyms[text]>> ELSE <<text>>

normalize_trade(user_input) ==
    LET text == join(lower(strip(user_input)))
    IN  IF text = "" THEN None
        ELSE IF text \in DOMAIN synonyms THEN <<synonyms[text]>> ELSE None

(* %H and %M of strptime, on the half-hour grid of the model *)
HourOf ==
    ("00" :> 0) @@ ("01" :> 1) @@ ("02" :> 2) @@ ("03" :> 3) @@ ("04" :> 4) @@
    ("05" :> 5) @@ ("06" :> 6) @@ ("07" :> 7) @@ ("08" :> 8) @@ ("09" :> 9) @@
    ("10" :> 10) @@ ("11" :> 11) @@ ("12" :> 12) @@ ("13" :> 13) @@ ("14" :> 14) @@
    ("15" :> 15) @@ ("16" :> 16) @@ ("17" :> 17) @@ ("18" :> 18) @@ ("19" :> 19) @@
    ("20" :> 20) @@ ("21" :> 21) @@ ("22" :> 22) @@ ("23" :> 23)

MinuteOf == ("00" :> 0) @@ ("30" :> 30)

(* the day bookings are asked for; service times count from its midnight *)
Today == "2025-10-21"

tried_formats ==
    << <<"%Y-%m-%d", " ", "%H", ":", "%M">>, <<"%Y-%m-%d", "T", "%H", ":", "%M">> >>

(* datetime.strptime(text, fmt): << >> stands for ValueError *)
strptime(text, fmt) ==
    LET fits(k) ==
            CASE fmt[k] = "%Y-%m-%d" -> text[k] = Today
              [] fmt[k] = "%H" -> text[k] \in DOMAIN HourOf
              [] fmt[k] = "%M" -> text[k] \in DOMAIN MinuteOf
              [] OTHER -> text[k] = fmt[k]
    IN  IF Len(text) = Len(fmt) /\ \A k \in 1..Len(fmt) : fits(k)
        THEN <<HourOf[text[3]] * Hour + MinuteOf[text[5]] \div (60 \div Hour)>>
        ELSE << >>

parse_datetime(user_input) ==
    LET text == strip(user_input)
        try[k \in 1..(Len(tried_formats) + 1)] ==
            IF k > Len(tried_formats) THEN None
            ELSE IF strptime(text, tried_formats[k]) # << >>
                 THEN strptime(text, tried_formats[k])
                 ELSE try[k + 1]
    IN  IF text = << >> THEN None ELSE try[1]

isdigit(ch) == ch \in Digits

(* "".join(ch for ch in zip_input if ch.isdigit()), as characters *)
digits_only(zip_input) == SelectSeq(zip_input, isdigit)

(* what the user answers to the three questions *)
TradeAnswers ==
    { <<"p", "l", "u", "m", "b", "e", "r">>,
      <<"E", "l", "e", "c", "t", "r", "i", "c", "a", "l">>,
      <<" ", "A", "C", " ">>,
      <<"r", "o", "o", "f">>,
      <<"p", "l", "u", "m", "b">>,
      <<" ">>,
      << >> }

TimeAnswers ==
    { a \in { <<Today, sep, hh, ":", mm>> :
                sep \in {" ", "T"}, hh \in DOMAIN HourOf, mm \in DOMAIN MinuteOf } :
        HourOf[a[3]] * Hour + MinuteOf[a[5]] \div (60 \div Hour) <= MaxTime }
    \cup { <<"21/10/2025", " ", "00", ":", "30">>,
           <<Today, " ", "24", ":", "00">>,
           <<Today, " ", "00", ":", "60">>,
           <<Today, "_", "00", ":", "30">>,
           <<Today>>,
           <<"tomorrow">>,
           << >> }

ZipAnswers ==
    { <<"1", "0", "0", "0", "1">>,
      <<"1", "0", "0", "0", "2">>,
      <<"1", "0", "-", "0", "0", "2">>,
      <<"9", "0", "2", "1", "0">>,
      <<"1", "0", "0", "0">>,
      <<"1", "0", "0", "0", "1", "2">>,
      <<"a", "b", "c", "d", "e">>,
      << >> }

AskStates == {"ask_trade", "ask_time", "ask_zip"}

(* ask(): the input, stripped *)
ask(answer) == strip(answer)

(* choice "book" at the menu: run_booking_flow starts, nothing asked yet *)
StartBooking ==
    /\ pc = "menu"
    /\ pc' = "ask_trade"
    /\ flow' = [NoFlow EXCEPT !.entry = appointments]
    /\ last' = [NoCall EXCEPT !.op = "run_booking_flow"]
    /\ UNCHANGED <<technicians, appointments, disk, written, lastSaved, sessions,
                   session, writable>>

(* one iteration of "while trade is None" *)
AnswerTrade ==
    /\ pc = "ask_trade"
    /\ \E answer \in TradeAnswers :
          LET trade_input == ask(answer)
              normalized == normalize_trade(trade_input)
          IN  IF normalized = None
              THEN /\ pc' = pc
                   /\ flow' = [flow EXCEPT !.asked = "ask_trade", !.answer = answer,
                                           !.ok = FALSE]
              ELSE /\ pc' = "ask_time"
                   /\ flow' = [flow EXCEPT !.asked = "ask_trade", !.answer = answer,
                                           !.ok = TRUE, !.trade = normalized]
    /\ UNCHANGED <<technicians, appointments, disk, written, last, lastSaved, sessions,
                   session, writable>>

(* one iteration of "while service_time is None" *)
AnswerTime ==
    /\ pc = "ask_time"
    /\ \E answer \in TimeAnswers :
          LET dt_input == ask(answer)
              parsed == parse_datetime(dt_input)
          IN  IF parsed = None
              THEN /\ pc' = pc
                   /\ flow' = [flow EXCEPT !.asked = "ask_time", !.answer = answer,
                                           !.ok = FALSE]
              ELSE /\ pc' = "ask_zip"
                   /\ flow' = [flow EXCEPT !.asked = "ask_time", !.answer = answer,
                                           !.ok = TRUE, !.service_time = parsed]
    /\ UNCHANGED <<technicians, appointments, disk, written, last, lastSaved, sessions,
                   session, writable>>

(* one iteration of "while zip_code is None"; an accepted zip leaves the   *)
(* loop and book_first_available is called with the three values           *)
AnswerZip ==
    /\ pc = "ask_zip"
    /\ \E answer \in ZipAnswers :
          LET zip_input == ask(answer)
          IN  IF Len(digits_only(zip_input)) # 5
              THEN /\ pc' = pc
                   /\ flow' = [flow EXCEPT !.asked = "ask_zip", !.answer = answer,
                                           !.ok = FALSE]
                   /\ UNCHANGED <<appointments, last, session>>
              ELSE \E confirmation_id \in uuid4(appointments) :
                   \E r \in {book_first_available(flow.trade[1],
                                 join(digits_only(zip_input)), flow.service_time[1],
                                 technicians, appointments, confirmation_id)} :
                       /\ r.ret = None \/ Len(appointments) < MaxAppts
                       /\ pc' = "menu"
                       /\ flow' = [flow EXCEPT !.asked = "ask_zip", !.answer = answer,
                                               !.ok = TRUE,
                                               !.zip_code = digits_only(zip_input)]
                       /\ appointments' = r.appointments
                       /\ last' = [NoCall EXCEPT !.op = "book", !.trade = flow.trade[1],
                                      !.zip_code = join(digits_only(zip_input)),
                                      !.start = flow.service_time[1],
                                      !.end = flow.service_time[1] + Hour,
                                      !.pre = appointments, !.ret = r.ret,
                                      !.checks = r.checks]
                       /\ session' = IF r.ret = None THEN session
                                     ELSE [session EXCEPT !.booked = Append(@,
                                              Appointment(r.ret[2], r.ret[1].technician_id,
                                                  flow.service_time[1],
                                                  flow.service_time[1] + Hour,
                                                  flow.trade[1]))]
    /\ UNCHANGED <<technicians, disk, written, lastSaved, sessions, writable>>

NextFlow == MainLoad \/ StartBooking \/ AnswerTrade \/ AnswerTime \/ AnswerZip

SpecFlow == Init /\ [][NextFlow]_vars

----------------------------------------------------------------------------
(* Storage that stops being writable: the permission to open the file for  *)
(* writing is withdrawn while a run is at its menu.  A file that is        *)
(* already open stays writable through its handle, and between two runs    *)
(* nothing writes, so withdrawing it at another moment acts as withdrawing *)
(* it at the next menu.                                                     *)

Revoke ==
    /\ pc = "menu"
    /\ writable
    /\ writable' = FALSE
    /\ UNCHANGED <<technicians, appointments, disk, pc, written, last, lastSaved,
                   sessions, session, flow>>

NextUnwritable == MainLoad \/ Book \/ SaveOpen \/ SaveWrite \/ SaveClose \/ Revoke

SpecUnwritable == Init /\ [][NextUnwritable]_vars

(* C17: a save on unwritable storage is surfaced as a fault.  The step of  *)
(* "quit" that calls save_appointments while the file cannot be opened for *)
(* writing ends in the fault state, not in a normal end, with the file and *)
(* the ledger as they were; a run is in the fault state only through such  *)
(* a save; and a run that ended normally has every appointment on disk.    *)
UnwritableStorageSurfaces ==
    /\ [][(pc = "menu" /\ last'.op = "save" /\ ~writable) =>
             (pc' = "save_fault" /\ disk' = disk /\ lastSaved' = lastSaved
                /\ appointments' = appointments)]_vars
    /\ [](pc = "save_fault" => (~writable /\ last.op = "save"))
    /\ [](pc = "done" => (disk.exists /\ ~Unreadable(disk) /\ Parsed(disk) = appointments))

(* the save of a run that has booked fails on unwritable storage *)
UnwritableStorageSurfacesWitness ==
    /\ pc = "save_fault"
    /\ ~writable
    /\ session.booked # << >>

----------------------------------------------------------------------------
(* two appointments of one technician in ledger overlap *)
DoubleBooked(ledger) ==
    \E i, j \in 1..Len(ledger) :
        /\ i # j
        /\ ledger[i].technician_id = ledger[j].technician_id
        /\ Overlap(ledger[i].start, ledger[i].end, ledger[j].start, ledger[j].end)

(* the appointments of the whole lines of the file *)
OnDiskLedger == Parsed(File(SubSeq(disk.lines, 1, WholeLines(disk))))

(* C18: no double booking across restarts.  Over runs that each load at    *)
(* startup, book, and complete the save at quit, starting without a file,  *)
(* neither the in-memory ledger nor the ledger on disk ever holds two      *)
(* overlapping appointments of one technician.                             *)
NoDoubleBookingAcrossRestarts ==
    /\ ~DoubleBooked(appointments)
    /\ ~DoubleBooked(OnDiskLedger)

(* a later run has saved a ledger in which one technician has an           *)
(* appointment loaded at startup and, next to it, one booked in this run   *)
NoDoubleBookingAcrossRestartsWitness ==
    /\ pc = "done"
    /\ sessions > 1
    /\ OnDiskLedger = appointments
    /\ \E i \in 1..Len(session.loaded), j \in 1..Len(session.booked) :
          /\ session.loaded[i].technician_id = session.booked[j].technician_id
          /\ session.loaded[i].end = session.booked[j].start

----------------------------------------------------------------------------
(* C19: referential integrity of bookings.  The appointment appended by    *)
(* book_first_available carries the technician_id of a technician of the   *)
(* roster whose business_units contain the appointment's trade and whose   *)
(* zones contain the requested zip, and every appointment of the ledger    *)
(* belongs to a roster technician that serves its trade.                   *)
ReferentialIntegrity ==
    /\ Booked =>
          LET appt == appointments[Len(appointments)]
          IN  \E i \in 1..Len(technicians) :
                  /\ technicians[i].technician_id = appt.technician_id
                  /\ appt.trade = last.trade
                  /\ appt.trade \in technicians[i].business_units
                  /\ last.zip_code \in technicians[i].zones
    /\ \A k \in 1..Len(appointments) :
          \E i \in 1..Len(technicians) :
              /\ technicians[i].technician_id = appointments[k].technician_id
              /\ appointments[k].trade \in technicians[i].business_units

(* a booking that passed over an earlier technician of the roster who      *)
(* serves the trade but not the zone                                        *)
ReferentialIntegrityWitness ==
    /\ Booked
    /\ \E i, j \in 1..Len(technicians) :
          /\ j < i
          /\ technicians[i] = last.ret[1]
          /\ last.trade \in technicians[j].business_units
          /\ last.zip_code \notin technicians[j].zones

====
